---- MODULE Spec2Model ----
(***************************************************************************)
(* Model of the file analyzer MCP server (main.py): the data directory,    *)
(* the start-up bootstrap and the five tools plus the data://schema        *)
(* resource.  Strings are sequences of tokens, so that concatenation,      *)
(* str.endswith and ", ".join are computed rather than assumed.  A table   *)
(* (DataFrame) is its column names and the values of its first column.     *)
(***************************************************************************)
EXTENDS Integers, Sequences, FiniteSets, TLC

\* ------------------------------------------------------------- bounds ----
MaxRows == 1
MaxNeg == 1

\* ------------------------------------------------------------ strings ----
RECURSIVE Join(_, _)
Join(items, sep) ==
  IF Len(items) = 0 THEN << >>
  ELSE IF Len(items) = 1 THEN items[1]
  ELSE items[1] \o sep \o Join(Tail(items), sep)

EndsWith(s, suffix) == Len(s) > 0 /\ s[Len(s)] = suffix

Contains(s, sub) ==
  \E i \in 0..(Len(s) - Len(sub)) : SubSeq(s, i + 1, i + Len(sub)) = sub

Str(n) == ToString(n)

Range(a, b) == [i \in 1..(IF b > a THEN b - a ELSE 0) |-> a + i - 1]

\* -------------------------------------------------------------- paths ----
\* A path string is split on "/" into components; a component is a
\* sequence of tokens.
RECURSIVE Components(_)
Components(s) ==
  IF Len(s) = 0 THEN << << >> >>
  ELSE IF Head(s) = "/" THEN << << >> >> \o Components(Tail(s))
  ELSE LET rest == Components(Tail(s))
       IN  << << Head(s) >> \o Head(rest) >> \o Tail(rest)

IsAbsolute(s) == Len(s) > 0 /\ Head(s) = "/"

RECURSIVE Normalize(_, _)
Normalize(done, todo) ==
  IF Len(todo) = 0 THEN done
  ELSE IF Head(todo) = << >> \/ Head(todo) = << "." >> THEN Normalize(done, Tail(todo))
  ELSE IF Head(todo) = << ".." >>
       THEN Normalize(IF Len(done) = 0 THEN done ELSE SubSeq(done, 1, Len(done) - 1), Tail(todo))
  ELSE Normalize(Append(done, Head(todo)), Tail(todo))

SCRIPT_DIR == << << "srv" >> >>
DATA_DIR == SCRIPT_DIR \o << << "data" >> >>

\* DATA_DIR / filename, as the operating system resolves it.
ResolvePath(filename) ==
  IF IsAbsolute(filename) THEN Normalize(<< >>, Components(filename))
  ELSE Normalize(DATA_DIR, Components(filename))

Parent(p) == SubSeq(p, 1, Len(p) - 1)
Name(p) == p[Len(p)]
InDataDir(p) == Len(p) > Len(DATA_DIR) /\ SubSeq(p, 1, Len(DATA_DIR)) = DATA_DIR

\* ------------------------------------------------------- file names ------
T_CSV == << "t", ".csv" >>
SAMPLE_CSV == << "sample", ".csv" >>
SAMPLE_PARQUET == << "sample", ".parquet" >>
X_TXT == << "x", ".txt" >>
SUB == << "sub" >>
UP_O_CSV == << "..", "/", "o", ".csv" >>
ABS_O_CSV == << "/", "srv", "/", "o", ".csv" >>
NODIR_N_CSV == << "nodir", "/", "n", ".csv" >>

\* The filename arguments a caller sends.
FileNames ==
  { T_CSV, SAMPLE_PARQUET, X_TXT, SUB, UP_O_CSV, ABS_O_CSV, NODIR_N_CSV }

\* The filenames the program uses: the callers' and its own sample.csv.
KnownNames == FileNames \cup { SAMPLE_CSV }

\* The resolution of every filename in use, computed once.
Resolved == [f \in KnownNames |-> ResolvePath(f)]

Resolve(filename) == Resolved[filename]

Paths == { Resolve(f) : f \in KnownNames }

\* -------------------------------------------------------- file system ----
Absent == [type |-> "absent"]
Directory == [type |-> "dir"]
File(data) == [type |-> "file", data |-> data]

\* Directories that exist throughout: the root, the script directory and
\* the data directory (created at import).
FixedDirs == { << >>, SCRIPT_DIR, DATA_DIR }

IsDir(fsys, p) == p \in FixedDirs \/ (p \in DOMAIN fsys /\ fsys[p].type = "dir")
IsFile(fsys, p) == p \in DOMAIN fsys /\ fsys[p].type = "file" /\ IsDir(fsys, Parent(p))
Exists(fsys, p) == IsDir(fsys, p) \/ IsFile(fsys, p)

Ok(v) == [raised |-> FALSE, value |-> v]
Raise(e) == [raised |-> TRUE, exc |-> e]

\* open(path, "r").read()
OpenRead(fsys, p) ==
  IF IsDir(fsys, p) THEN Raise(<< "[Errno 21] Is a directory" >>)
  ELSE IF ~IsFile(fsys, p) THEN Raise(<< "[Errno 2] No such file or directory" >>)
  ELSE Ok(fsys[p].data)

\* open(path, "w").write(data): the file system afterwards, or the error.
OpenWrite(fsys, p, data) ==
  IF IsDir(fsys, p) THEN Raise(<< "[Errno 21] Is a directory" >>)
  ELSE IF ~IsDir(fsys, Parent(p)) \/ p \notin DOMAIN fsys
       THEN Raise(<< "Cannot save file into a non-existent directory" >>)
  ELSE Ok([fsys EXCEPT ![p] = File(data)])

\* ------------------------------------------------------------- tables ----
DataFrame(columns, index) == [columns |-> columns, index |-> index]

\* to_csv with the index written too: an unnamed first column.
ToCsv_with_index(df) ==
  [format |-> "text",
   lines |-> << << << >> >> \o df.columns >>
               \o [i \in 1..Len(df.index) |-> << i - 1, df.index[i] >>]]

\* DataFrame.to_csv(index=False): a header line, then one line per row.
ToCsv(df) ==
  [format |-> "text",
   lines |-> << df.columns >> \o [i \in 1..Len(df.index) |-> << df.index[i] >>]]

\* DataFrame.to_parquet(index=False): the schema and one row group.
ToParquet(df) ==
  [format |-> "parquet", schema |-> df.columns, rowgroup |-> df.index]

\* pandas parses the first line as the header and the rest as rows.
ParseCsv(data) ==
  IF data.format # "text" THEN Raise(<< "'utf-8' codec can't decode byte" >>)
  ELSE IF Len(data.lines) = 0 THEN Raise(<< "No columns to parse from file" >>)
  ELSE Ok(DataFrame(data.lines[1],
                    [i \in 1..(Len(data.lines) - 1) |-> data.lines[i + 1][1]]))

ParseParquet(data) ==
  IF data.format # "parquet" THEN Raise(<< "Parquet magic bytes not found in footer" >>)
  ELSE Ok(DataFrame(data.schema, data.rowgroup))

read_csv(fsys, p) ==
  LET f == OpenRead(fsys, p) IN IF f.raised THEN f ELSE ParseCsv(f.value)

read_parquet(fsys, p) ==
  LET f == OpenRead(fsys, p) IN IF f.raised THEN f ELSE ParseParquet(f.value)

to_csv(fsys, df, p) == OpenWrite(fsys, p, ToCsv(df))

to_parquet(fsys, df, p) == OpenWrite(fsys, p, ToParquet(df))

\* ------------------------------------------------------------ replies ----
\* What one call produces: the text returned (or a fault when an exception
\* leaves the handler), the file system afterwards, and the files it
\* opened.
Reply(text, fsys, io) == [fault |-> FALSE, text |-> text, fs |-> fsys, io |-> io]
Fault(exc, fsys, io) == [fault |-> TRUE, text |-> exc, fs |-> fsys, io |-> io]

Opened(fsys, mode, p) == IF IsFile(fsys, p) THEN { [mode |-> mode, path |-> p] } ELSE { }

COMMA == << ", " >>

\* ---------------------------------------------------- utility functions --
read_csv_summary(fsys, filename) ==
  LET file_path == Resolve(filename) IN
  IF ~Exists(fsys, file_path)
  THEN Reply(<< "Error: File '" >> \o filename \o << "' ", "not found", " in data directory." >>,
             fsys, { })
  ELSE LET r == read_csv(fsys, file_path)
           io == Opened(fsys, "r", file_path)
       IN  IF r.raised
           THEN Reply(<< "Error reading CSV file '" >> \o filename \o << "': " >> \o r.exc,
                      fsys, io)
           ELSE Reply(<< "CSV file '" >> \o filename
                        \o << "' has ", Str(Len(r.value.index)), " rows and ",
                              Str(Len(r.value.columns)), " columns. Columns: " >>
                        \o Join(r.value.columns, COMMA),
                      fsys, io)

read_parquet_summary(fsys, filename) ==
  LET file_path == Resolve(filename) IN
  IF ~Exists(fsys, file_path)
  THEN Reply(<< "Error: File '" >> \o filename \o << "' ", "not found", " in data directory." >>,
             fsys, { })
  ELSE LET r == read_parquet(fsys, file_path)
           io == Opened(fsys, "r", file_path)
       IN  IF r.raised
           THEN Reply(<< "Error reading Parquet file '" >> \o filename \o << "': " >> \o r.exc,
                      fsys, io)
           ELSE Reply(<< "Parquet file '" >> \o filename
                        \o << "' has ", Str(Len(r.value.index)), " rows and ",
                              Str(Len(r.value.columns)), " columns. Columns: " >>
                        \o Join(r.value.columns, COMMA),
                      fsys, io)

\* ------------------------------------------------------------- tools -----
\* DATA_DIR.glob("*"): the entries of the data directory, in one fixed order.
ListingOrder ==
  << Resolve(SAMPLE_CSV), Resolve(SAMPLE_PARQUET), Resolve(SUB), Resolve(T_CSV),
     Resolve(X_TXT) >>

Glob(fsys) == SelectSeq(ListingOrder, LAMBDA p : Exists(fsys, p))

list_data_files(fsys) ==
  LET files == Glob(fsys) IN
  IF Len(files) = 0
  THEN Reply(<< "No data files found in the data directory." >>, fsys, { })
  ELSE LET regular == SelectSeq(files, LAMBDA p : IsFile(fsys, p))
           file_list == [i \in 1..Len(regular) |-> Name(regular[i])]
       IN  Reply(<< "Available data files: " >> \o Join(file_list, COMMA), fsys, { })

summarize_csv_file(fsys, filename) == read_csv_summary(fsys, filename)

summarize_parquet_file(fsys, filename) == read_parquet_summary(fsys, filename)

DESCRIBE == << "describe" >>
HEAD == << "head" >>
INFO == << "info" >>
COLUMNS == << "columns" >>
DEFAULT_OPERATION == DESCRIBE

\* analyze_csv_data treating any other operation as describe.
analyze_csv_data_fallback(fsys, filename, operation) ==
  LET file_path == Resolve(filename) IN
  IF ~Exists(fsys, file_path)
  THEN Reply(<< "Error: File '" >> \o filename \o << "' ", "not found", "." >>, fsys, { })
  ELSE LET r == read_csv(fsys, file_path)
           io == Opened(fsys, "r", file_path)
       IN  IF r.raised
           THEN Reply(<< "Error analyzing " >> \o filename \o << ": " >> \o r.exc, fsys, io)
           ELSE LET df == r.value IN
             IF operation = HEAD
             THEN Reply(<< "First 5 rows of " >> \o filename \o << ":\n", "<df.head()>" >>,
                        fsys, io)
             ELSE IF operation = INFO
             THEN Reply(<< "Info for " >> \o filename
                          \o << ":\n", "Shape: (", Str(Len(df.index)), ", ",
                                Str(Len(df.columns)), ")\n", "Columns: [" >>
                          \o Join(df.columns, COMMA)
                          \o << "]\n", "Data types:\n", "<df.dtypes>" >>, fsys, io)
             ELSE IF operation = COLUMNS
             THEN Reply(<< "Columns in " >> \o filename \o << ": " >>
                          \o Join(df.columns, COMMA), fsys, io)
             ELSE Reply(<< "Statistical description of " >> \o filename
                          \o << ":\n", "<df.describe()>" >>, fsys, io)

analyze_csv_data(fsys, filename, operation) ==
  LET file_path == Resolve(filename) IN
  IF ~Exists(fsys, file_path)
  THEN Reply(<< "Error: File '" >> \o filename \o << "' ", "not found", "." >>, fsys, { })
  ELSE LET r == read_csv(fsys, file_path)
           io == Opened(fsys, "r", file_path)
       IN  IF r.raised
           THEN Reply(<< "Error analyzing " >> \o filename \o << ": " >> \o r.exc, fsys, io)
           ELSE LET df == r.value IN
             IF operation = DESCRIBE
             THEN Reply(<< "Statistical description of " >> \o filename
                          \o << ":\n", "<df.describe()>" >>, fsys, io)
             ELSE IF operation = HEAD
             THEN Reply(<< "First 5 rows of " >> \o filename \o << ":\n", "<df.head()>" >>,
                        fsys, io)
             ELSE IF operation = INFO
             THEN Reply(<< "Info for " >> \o filename
                          \o << ":\n", "Shape: (", Str(Len(df.index)), ", ",
                                Str(Len(df.columns)), ")\n", "Columns: [" >>
                          \o Join(df.columns, COMMA)
                          \o << "]\n", "Data types:\n", "<df.dtypes>" >>, fsys, io)
             ELSE IF operation = COLUMNS
             THEN Reply(<< "Columns in " >> \o filename \o << ": " >>
                          \o Join(df.columns, COMMA), fsys, io)
             ELSE Reply(<< "Unknown operation: " >> \o operation \o << ". Available: " >>
                          \o << "describe", ", ", "head", ", ", "info", ", ", "columns" >>,
                        fsys, io)

SampleColumns ==
  << << "id" >>, << "name" >>, << "score" >>, << "category" >>, << "created_date" >> >>

\* create_sample_data without its except clause: a failed write escapes.
create_sample_data_uncaught(fsys, filename, rows) ==
  LET df == DataFrame(SampleColumns, Range(1, rows + 1))
      file_path == Resolve(filename)
      Written(w) ==
        IF w.raised
        THEN Fault(w.exc, fsys, { })
        ELSE Reply(<< "Created " >> \o filename
                     \o << " with ", Str(rows), " rows and ", Str(Len(df.columns)),
                           " columns." >>,
                   w.value, Opened(w.value, "w", file_path))
  IN  IF EndsWith(filename, ".csv") THEN Written(to_csv(fsys, df, file_path))
      ELSE IF EndsWith(filename, ".parquet") THEN Written(to_parquet(fsys, df, file_path))
      ELSE Reply(<< "Error: Filename must end with .csv or .parquet" >>, fsys, { })

\* create_sample_data writing CSV whenever the suffix is not .parquet.
create_sample_data_csv_default(fsys, filename, rows) ==
  LET df == DataFrame(SampleColumns, Range(1, rows + 1))
      file_path == Resolve(filename)
      Written(w) ==
        IF w.raised
        THEN Reply(<< "Error creating sample data: " >> \o w.exc, fsys, { })
        ELSE Reply(<< "Created " >> \o filename
                     \o << " with ", Str(rows), " rows and ", Str(Len(df.columns)),
                           " columns." >>,
                   w.value, Opened(w.value, "w", file_path))
  IN  IF EndsWith(filename, ".parquet") THEN Written(to_parquet(fsys, df, file_path))
      ELSE Written(to_csv(fsys, df, file_path))

\* create_sample_data removing the file when there is no row to write.
create_sample_data_unlink_empty(fsys, filename, rows) ==
  LET df == DataFrame(SampleColumns, Range(1, rows + 1))
      file_path == Resolve(filename)
      Written(w) ==
        IF w.raised
        THEN Reply(<< "Error creating sample data: " >> \o w.exc, fsys, { })
        ELSE Reply(<< "Created " >> \o filename
                     \o << " with ", Str(rows), " rows and ", Str(Len(df.columns)),
                           " columns." >>,
                   IF rows <= 0 THEN [w.value EXCEPT ![file_path] = Absent] ELSE w.value,
                   Opened(w.value, "w", file_path))
  IN  IF EndsWith(filename, ".csv") THEN Written(to_csv(fsys, df, file_path))
      ELSE IF EndsWith(filename, ".parquet") THEN Written(to_parquet(fsys, df, file_path))
      ELSE Reply(<< "Error: Filename must end with .csv or .parquet" >>, fsys, { })

create_sample_data(fsys, filename, rows) ==
  LET df == DataFrame(SampleColumns, Range(1, rows + 1))
      file_path == Resolve(filename)
      Written(w) ==
        IF w.raised
        THEN Reply(<< "Error creating sample data: " >> \o w.exc, fsys, { })
        ELSE Reply(<< "Created " >> \o filename
                     \o << " with ", Str(rows), " rows and ", Str(Len(df.columns)),
                           " columns." >>,
                   w.value, Opened(w.value, "w", file_path))
  IN  IF EndsWith(filename, ".csv") THEN Written(to_csv(fsys, df, file_path))
      ELSE IF EndsWith(filename, ".parquet") THEN Written(to_parquet(fsys, df, file_path))
      ELSE Reply(<< "Error: Filename must end with .csv or .parquet" >>, fsys, { })

\* ---------------------------------------------------------- resources ----
get_data_schema(fsys) ==
  Reply(<< "{", "description", "supported_formats", "CSV", "Parquet",
           "sample_structure", "id", "name", "email", "signup_date", "}" >>, fsys, { })

\* ------------------------------------------------------------ start-up ---
SampleRows == 5

SampleFrame ==
  DataFrame(<< << "id" >>, << "name" >>, << "email" >>, << "signup_date" >> >>,
            Range(1, SampleRows + 1))

\* The __main__ block writing sample.csv only.
main_csv_only(fsys) ==
  LET sample_csv == Resolve(SAMPLE_CSV) IN
  IF ~Exists(fsys, sample_csv)
  THEN LET w1 == to_csv(fsys, SampleFrame, sample_csv) IN
       IF w1.raised THEN [pc |-> "crashed", fs |-> fsys, printed |-> << >>]
       ELSE [pc |-> "serving", fs |-> w1.value,
             printed |-> << "Created sample data files",
                            "Starting MCP File Analyzer Server..." >>]
  ELSE [pc |-> "serving", fs |-> fsys,
        printed |-> << "Starting MCP File Analyzer Server..." >>]

\* The __main__ block up to mcp.run(): where the process ends up, the file
\* system it leaves and what it printed.
main(fsys) ==
  LET sample_csv == Resolve(SAMPLE_CSV) IN
  IF ~Exists(fsys, sample_csv)
  THEN LET w1 == to_csv(fsys, SampleFrame, sample_csv) IN
       IF w1.raised THEN [pc |-> "crashed", fs |-> fsys, printed |-> << >>]
       ELSE LET w2 == to_parquet(w1.value, SampleFrame, Resolve(SAMPLE_PARQUET)) IN
            IF w2.raised THEN [pc |-> "crashed", fs |-> w1.value, printed |-> << >>]
            ELSE [pc |-> "serving", fs |-> w2.value,
                  printed |-> << "Created sample data files",
                                 "Starting MCP File Analyzer Server..." >>]
  ELSE [pc |-> "serving", fs |-> fsys,
        printed |-> << "Starting MCP File Analyzer Server..." >>]

\* ------------------------------------------------------- state machine ---
VARIABLES pc, fs, printed, request, response

vars == << pc, fs, printed, request, response >>

NoRequest == [tool |-> "none", arguments |-> << >>]
NoResponse == [fault |-> FALSE, text |-> << >>, io |-> { }]

\* What the data directory and its surroundings may hold when the process
\* starts.
BinaryData == [format |-> "binary"]
NoteData == [format |-> "text", lines |-> << << << "hello" >> >> >>]
OtherData == ToCsv(DataFrame(<< << "secret" >> >>, << 1 >>))

\* A directory never used before holds at most a sample.parquet entry; one
\* left by an earlier run holds sample.csv and, beside a sample.parquet
\* entry or none, a corrupt t.csv, a note x.txt and a subdirectory, with a
\* file o.csv next to the data directory.
InitialStores ==
  { [p \in Paths |->
       CASE p = Resolve(SAMPLE_CSV) -> IF used THEN File(ToCsv(SampleFrame)) ELSE Absent
         [] p = Resolve(SAMPLE_PARQUET) -> c
         [] p = Resolve(T_CSV) -> IF used THEN File(BinaryData) ELSE Absent
         [] p = Resolve(X_TXT) -> IF used THEN File(NoteData) ELSE Absent
         [] p = Resolve(SUB) -> IF used THEN Directory ELSE Absent
         [] p = Resolve(UP_O_CSV) -> IF used THEN File(OtherData) ELSE Absent
         [] OTHER -> Absent] :
    c \in { Absent, Directory, File(ToParquet(SampleFrame)) },
    used \in BOOLEAN }

Init ==
  /\ pc = "boot"
  /\ fs \in InitialStores
  /\ printed = << >>
  /\ request = NoRequest
  /\ response = NoResponse

Bootstrap ==
  /\ pc = "boot"
  /\ LET m == main(fs) IN
       /\ pc' = m.pc
       /\ fs' = m.fs
       /\ printed' = m.printed
  /\ UNCHANGED << request, response >>

\* The reply of the tool called becomes the response of the request.
Respond(tool, arguments, r) ==
  /\ request' = [tool |-> tool, arguments |-> arguments]
  /\ response' = [fault |-> r.fault, text |-> r.text, io |-> r.io]
  /\ fs' = r.fs

Operations == { DESCRIBE, HEAD, INFO, COLUMNS, << "bogus" >> }

RowCounts == (0 - MaxNeg)..MaxRows

ListDataFiles ==
  /\ pc = "serving"
  /\ Respond("list_data_files", << >>, list_data_files(fs))
  /\ UNCHANGED << pc, printed >>

SummarizeCsvFile ==
  /\ pc = "serving"
  /\ \E f \in FileNames :
       Respond("summarize_csv_file", [filename |-> f], summarize_csv_file(fs, f))
  /\ UNCHANGED << pc, printed >>

SummarizeParquetFile ==
  /\ pc = "serving"
  /\ \E f \in FileNames :
       Respond("summarize_parquet_file", [filename |-> f], summarize_parquet_file(fs, f))
  /\ UNCHANGED << pc, printed >>

\* The arguments of an analyze_csv_data call: the operation may be left out.
AnalyzeArguments(f) ==
  { [filename |-> f] } \cup { [filename |-> f, operation |-> op] : op \in Operations }

\* An omitted operation takes the declared default.
AnalyzeCsvData ==
  /\ pc = "serving"
  /\ \E f \in FileNames :
       \E args \in AnalyzeArguments(f) :
         Respond("analyze_csv_data", args,
                 analyze_csv_data(fs, f, IF "operation" \in DOMAIN args THEN args.operation
                                         ELSE DEFAULT_OPERATION))
  /\ UNCHANGED << pc, printed >>

CreateSampleData ==
  /\ pc = "serving"
  /\ \E f \in FileNames, rows \in RowCounts :
       Respond("create_sample_data", [filename |-> f, rows |-> rows],
               create_sample_data(fs, f, rows))
  /\ UNCHANGED << pc, printed >>

ReadSchema ==
  /\ pc = "serving"
  /\ Respond("data://schema", << >>, get_data_schema(fs))
  /\ UNCHANGED << pc, printed >>

Next ==
  \/ Bootstrap
  \/ ListDataFiles
  \/ SummarizeCsvFile
  \/ SummarizeParquetFile
  \/ AnalyzeCsvData
  \/ CreateSampleData
  \/ ReadSchema

Spec == Init /\ [][Next]_vars

\* The tools registered at import, called on any data directory (the
\* module imported by a host or a test, the __main__ block not run).
InitTools ==
  /\ pc = "serving"
  /\ fs \in InitialStores
  /\ printed = << >>
  /\ request = NoRequest
  /\ response = NoResponse

NextTools ==
  \/ ListDataFiles
  \/ SummarizeCsvFile
  \/ SummarizeParquetFile
  \/ AnalyzeCsvData
  \/ CreateSampleData
  \/ ReadSchema

SpecTools == InitTools /\ [][NextTools]_vars

\* ------------------------------------------------------------ properties -
Filename(req) == req.arguments.filename
NOT_FOUND == << "not found" >>
SuffixError == << "Error: Filename must end with .csv or .parquet" >>
NoFilesSentence == << "No data files found in the data directory." >>
IsCreated(text) == Len(text) > 0 /\ text[1] = "Created "
IsUnknownOperation(text) == Len(text) > 0 /\ text[1] = "Unknown operation: "
SupportedSuffix(f) == EndsWith(f, ".csv") \/ EndsWith(f, ".parquet")
ReadingTools == { "summarize_csv_file", "summarize_parquet_file", "analyze_csv_data" }
ValidOperations == { DESCRIBE, HEAD, INFO, COLUMNS }

\* C1: after any sequence of calls, and for every filename (with ".."
\* segments or absolute), no file outside the data directory has been
\* opened for reading or writing, and a filename that resolves outside the
\* data directory is answered as not found.
C1_StaysInDataDir ==
  /\ \A a \in response.io : InDataDir(a.path)
  /\ (request.tool \in ReadingTools /\ ~InDataDir(Resolve(Filename(request))))
       => Contains(response.text, NOT_FOUND)

C3_BadSuffixNoWrite ==
  [][ (pc = "serving" /\ request'.tool = "create_sample_data"
         /\ ~SupportedSuffix(Filename(request')))
      => (response'.text = SuffixError /\ response'.io = { } /\ fs' = fs) ]_vars

C3_Witness ==
  /\ request.tool = "create_sample_data"
  /\ Filename(request) = X_TXT
  /\ response.text = SuffixError
  /\ fs[Resolve(X_TXT)] = Absent

\* C4: a successful create_sample_data(f, n) with n >= 0, directly followed
\* by the summarize tool matching f's suffix, reports n rows and the five
\* columns id, name, score, category, created_date in that order.
MatchingSummarize(f) ==
  IF EndsWith(f, ".csv") THEN "summarize_csv_file" ELSE "summarize_parquet_file"

ExpectedSummary(f, n) ==
  << IF EndsWith(f, ".csv") THEN "CSV file '" ELSE "Parquet file '" >> \o f
    \o << "' has ", Str(n), " rows and ", "5", " columns. Columns: ",
          "id", ", ", "name", ", ", "score", ", ", "category", ", ", "created_date" >>

C4_CreateThenSummarize ==
  [][ (/\ request.tool = "create_sample_data"
       /\ IsCreated(response.text)
       /\ request.arguments.rows >= 0
       /\ request'.tool = MatchingSummarize(Filename(request))
       /\ Filename(request') = Filename(request))
      => response'.text = ExpectedSummary(Filename(request), request.arguments.rows) ]_vars

C4_Witness ==
  /\ request.tool = "summarize_parquet_file"
  /\ Filename(request) = SAMPLE_PARQUET
  /\ response.text = ExpectedSummary(SAMPLE_PARQUET, MaxRows)

\* C5: when the named file is absent from the data directory, the two
\* summarize tools and analyze_csv_data (whatever the operation) return an
\* error text containing "not found" and the filename, and the files are
\* unchanged.
InDataDirectory(fsys, f) == InDataDir(Resolve(f)) /\ Exists(fsys, Resolve(f))

C5_NotFound ==
  [][ (pc = "serving" /\ request'.tool \in ReadingTools
         /\ ~InDataDirectory(fs, Filename(request')))
      => (/\ Contains(response'.text, NOT_FOUND)
          /\ Contains(response'.text, Filename(request'))
          /\ fs' = fs) ]_vars

\* C6: analyze_csv_data on an existing, loadable CSV file: an operation
\* other than describe, head, info, columns gets the unknown-operation
\* message, which echoes the value and lists exactly the four names; the
\* four names and an omitted operation never get it.
UnknownOperationMessage(op) ==
  << "Unknown operation: " >> \o op \o << ". Available: " >>
    \o Join(<< DESCRIBE, HEAD, INFO, COLUMNS >>, COMMA)

Loadable(fsys, f) == Exists(fsys, Resolve(f)) /\ ~read_csv(fsys, Resolve(f)).raised

C6_UnknownOperation ==
  (request.tool = "analyze_csv_data" /\ Loadable(fs, Filename(request)))
    => IF "operation" \in DOMAIN request.arguments
          /\ request.arguments.operation \notin ValidOperations
       THEN response.text = UnknownOperationMessage(request.arguments.operation)
       ELSE ~IsUnknownOperation(response.text)

C6_Witness ==
  /\ request.tool = "analyze_csv_data"
  /\ Filename(request) = T_CSV
  /\ "operation" \in DOMAIN request.arguments
  /\ request.arguments.operation = << "bogus" >>
  /\ IsUnknownOperation(response.text)

\* C7: list_data_files returns the no-files sentence when the data
\* directory has no regular file (empty, or only subdirectories), and
\* otherwise "Available data files: " with the names of exactly the
\* regular files.
RegularFiles(fsys) == SelectSeq(ListingOrder, LAMBDA p : IsFile(fsys, p))

C7_Listing ==
  request.tool = "list_data_files"
    => LET regular == RegularFiles(fs) IN
       IF Len(regular) = 0 THEN response.text = NoFilesSentence
       ELSE response.text = << "Available data files: " >>
              \o Join([i \in 1..Len(regular) |-> Name(regular[i])], COMMA)

\* C8: when the server starts accepting requests, sample.csv and
\* sample.parquet both exist with the 5-row sample, whatever the directory
\* held before.
SampleInBothFormats(fsys) ==
  /\ fsys[Resolve(SAMPLE_CSV)] = File(ToCsv(SampleFrame))
  /\ fsys[Resolve(SAMPLE_PARQUET)] = File(ToParquet(SampleFrame))

C8_BothFormatsAtStart ==
  (pc = "serving" /\ request = NoRequest) => SampleInBothFormats(fs)

\* C8 as amended: start-up with sample.csv missing writes the sample in
\* both formats before the server accepts requests; with sample.csv
\* present it writes nothing; no request is served before start-up ends.
C8_BootstrapWhenCsvMissing ==
  [][ /\ (pc = "boot" /\ pc' = "serving")
        => IF Exists(fs, Resolve(SAMPLE_CSV)) THEN fs' = fs
           ELSE SampleInBothFormats(fs')
      /\ request' # NoRequest => pc = "serving" ]_vars

C8_Witness ==
  /\ pc = "serving"
  /\ request = NoRequest
  /\ Len(printed) = 2
  /\ SampleInBothFormats(fs)

\* C9: the listing, summarize and analyze tools and the schema resource
\* leave every file unchanged; create_sample_data changes at most the file
\* it names; no call removes a file.
C9_Frame ==
  [][ pc = "serving"
      => /\ request'.tool # "create_sample_data" => fs' = fs
         /\ request'.tool = "create_sample_data"
              => \A p \in Paths \ { Resolve(Filename(request')) } : fs'[p] = fs[p]
         /\ \A p \in Paths : fs[p] # Absent => fs'[p] # Absent ]_vars

C9_Witness ==
  /\ request.tool = "create_sample_data"
  /\ Filename(request) = T_CSV
  /\ fs[Resolve(T_CSV)] = File(ToCsv(DataFrame(SampleColumns, Range(1, MaxRows + 1))))
  /\ fs[Resolve(X_TXT)] = File(NoteData)
  /\ fs[Resolve(SUB)] = Directory

\* C10: whenever create_sample_data confirms success, the row count in the
\* confirmation is the number of rows persisted in the file and the column
\* count is 5, for positive, zero and negative rows arguments.
PersistedRows(fsys, f) ==
  LET data == fsys[Resolve(f)].data IN
  IF EndsWith(f, ".csv") THEN Len(ParseCsv(data).value.index)
  ELSE Len(ParseParquet(data).value.index)

C10_ConfirmedRowCount ==
  (request.tool = "create_sample_data" /\ IsCreated(response.text))
    => LET f == Filename(request) IN
       /\ response.text[Len(f) + 3] = Str(PersistedRows(fs, f))
       /\ response.text[Len(f) + 5] = "5"

====
